---- MODULE Spec2Model ----
(***************************************************************************)
(* Analisador Musical com IA: the App component (App.tsx), the URL form    *)
(* (URLInput.tsx) and the analysis service (geminiService.ts together with *)
(* the YouTube, Last.fm, lyrics, audio-analysis and prompt services).      *)
(*                                                                         *)
(* App.tsx calls analyzeMusic with five arguments and analyzePlaylist with *)
(* six, which is the signature of the service at geminiService.ts          *)
(* 1765-1955; the App is modelled against that service.  The service at    *)
(* geminiService.ts 604-930 (analyzeMusicAdvanced and the analyzeMusic     *)
(* with a language parameter) is modelled as a second entry point.         *)
(*                                                                         *)
(* Every `await` is a step boundary: an action is the code that runs from  *)
(* the arrival of one response up to the next request sent.                *)
(***************************************************************************)
EXTENDS Integers, Sequences, FiniteSets, TLC

NULL == "null"

(***************************************************************************)
(* Bounds of the explored world.                                           *)
(***************************************************************************)
\* number of items of the sample YouTube playlist
MaxPlaylistItems == 11

(***************************************************************************)
(* Sample inputs.  URL strings stand for themselves; the results of the    *)
(* regular expressions of the code on each of them are tabulated below.    *)
(***************************************************************************)
UrlEmpty    == ""
UrlVideo    == "https://www.youtube.com/watch?v=vA"
UrlPlaylist == "https://www.youtube.com/playlist?list=PLbig"
UrlPlaylistMix == "https://www.youtube.com/playlist?list=PLmix"
UrlChannel  == "https://www.youtube.com/feed/library"
UrlOther    == "https://example.com/"
Urls        == {UrlEmpty, UrlVideo, UrlPlaylist, UrlPlaylistMix, UrlChannel, UrlOther}

GeminiKeys  == {"", " ", "G"}
YoutubeKeys == {"", "Y"}
LastfmKeys  == {"", "L"}

\* the string taken as it is, without trim()
Untrimmed(s) == s

\* String.prototype.trim() on the sample strings
Trim(s) == IF s = " " THEN "" ELSE s

\* JavaScript truthiness of a string
Truthy(s) == s # "" /\ s # NULL

(***************************************************************************)
(* The world outside the program: the sample playlist and its videos.      *)
(***************************************************************************)
PlaylistItems(id) ==
  IF id = "PLbig" THEN [k \in 1..MaxPlaylistItems |-> "vL"]
  ELSE IF id = "PLmix" THEN <<"vA", "vB">>
  ELSE << >>

VideoTitle(id) ==
  CASE id = "vA" -> "Queen - Bohemian Rhapsody"
    [] id = "vL" -> "Luqi - Xilofone"
    [] id = "vB" -> "Dua Lipa - Levitating"
    [] OTHER     -> "Untitled"

\* the analyses Gemini may return for a video (JSON that parses)
OkAnalysis(id) ==
  [video |-> id, error |-> "",
   primaryGenre |-> IF id = "vL" THEN "Trap" ELSE IF id = "vB" THEN "Pop" ELSE "Rock",
   bpm |-> IF id = "vL" THEN 140 ELSE IF id = "vB" THEN 0 ELSE 72]

ErrAnalysis(id) ==
  [video |-> id, error |-> "Content is not a song", primaryGenre |-> "", bpm |-> 0]

NoAnalysis == [null |-> TRUE]

GeminiAnalyses(id) ==
  IF id = "vA" THEN {OkAnalysis(id), ErrAnalysis(id)} ELSE {OkAnalysis(id)}

\* messages with which ai.models.generateContent may reject
GeminiErrors == {"API key not valid", "xhr error"}

(***************************************************************************)
(* YouTubeService (youtube.service).                                       *)
(***************************************************************************)
\* url.match(/[&?]list=([^&\n?#]+)/)
extractPlaylistId(url) ==
  IF url = UrlPlaylist THEN "PLbig"
  ELSE IF url = UrlPlaylistMix THEN "PLmix"
  ELSE NULL

\* the three video patterns: watch?v=, youtu.be/, embed/, v/, shorts/
extractVideoId(url) ==
  CASE url = UrlVideo -> "vA"
    [] url = "https://www.youtube.com/watch?v=vL" -> "vL"
    [] url = "https://www.youtube.com/watch?v=vB" -> "vB"
    [] OTHER -> NULL

getUrlType(url) ==
  IF extractPlaylistId(url) # NULL THEN "playlist"
  ELSE IF extractVideoId(url) # NULL THEN "video"
  ELSE "unknown"

(***************************************************************************)
(* URLInput: /^(https?:\/\/)?(www\.)?(youtube\.com|youtu\.be)\/.+/         *)
(***************************************************************************)
isValidYouTubeUrl(url) == url \in {UrlVideo, UrlPlaylist, UrlPlaylistMix, UrlChannel}

(***************************************************************************)
(* Messages (accents dropped).                                             *)
(***************************************************************************)
MsgNoGeminiKeyUI  == "Por favor, insira sua chave de API da Gemini."
MsgNoUrlUI        == "Por favor, insira um URL do YouTube."
MsgUrlEmpty       == "Por favor, insira uma URL do YouTube."
MsgUrlInvalid     == "Por favor, insira uma URL valida do YouTube (youtube.com ou youtu.be)."
MsgNoGeminiKey    == "A chave de API da Gemini nao foi fornecida."
MsgNoYoutubeKey   == "A chave de API do YouTube nao foi fornecida."
MsgNoLastfmKey    == "A chave de API do Last.fm nao foi fornecida."
MsgNoData         == "Nao foi possivel obter dados da musica. Verifique se a URL e valida."
MsgInvalidKey     == "A chave de API fornecida e invalida. Verifique se a chave esta correta e tente novamente."
MsgNetwork        == "Erro de rede ao contatar a API Gemini. Isso pode ser um problema de CORS ou conectividade. Verifique sua conexao com a internet."
MsgGeminiFailed   == "Falha ao obter a analise da API Gemini"
MsgNoPlaylistId   == "Nao foi possivel extrair o ID da playlist da URL fornecida."
MsgNoPlaylistData == "Nao foi possivel obter dados da playlist."
MsgNoTrack        == "Nao foi possivel analisar nenhuma musica da playlist."

PrgStart      == "Iniciando analise..."
PrgPlaylist   == "Detectada playlist - Obtendo lista de musicas..."
PrgSingle     == "Musica individual detectada - Coletando dados..."
PrgYoutube    == "Coletando dados do YouTube..."
PrgLastfm     == "Buscando dados de popularidade no Last.fm..."
PrgLyrics     == "Buscando letras da musica..."
PrgConsolid   == "Consolidando dados para analise..."
PrgGemini     == "Enviando para analise com IA Gemini..."
PrgPlData     == "Obtendo dados da playlist..."
PrgPlStart    == "Iniciando analise das musicas..."
PrgPlTrack    == "Analisando musica"

(***************************************************************************)
(* State.                                                                  *)
(***************************************************************************)
VARIABLES
  youtubeUrl, geminiApiKey, youtubeApiKey, lastfmApiKey,   \* App.tsx useState: inputs
  analysis, isLoading, error, isPlaylist, progressMessage, \* App.tsx useState: outputs
  urlError,                                                \* URLInput.tsx useState
  pc,        \* the await at which the running service call is suspended
  mode,      \* which entry point is running: idle, single, playlist, advanced
  am,        \* locals of the running analyzeMusic call
  pl,        \* locals of the running analyzePlaylist call
  adv,       \* locals of the running analyzeMusicAdvanced call
  settled,   \* the settlement of the promise last settled, until its continuation runs
  inflight,  \* HTTP requests sent and not yet answered
  sent       \* requests issued by the running analyzeMusic call, in order

inputs  == <<youtubeUrl, geminiApiKey, youtubeApiKey, lastfmApiKey, isPlaylist, urlError>>
outputs == <<analysis, isLoading, error, progressMessage>>
service == <<pc, mode, am, pl, adv, settled, inflight, sent>>
vars    == <<inputs, outputs, service>>

(***************************************************************************)
(* Requests.  dest is the host the request goes to, key the API key that   *)
(* the URL, the headers or the SDK client carry.                           *)
(***************************************************************************)
YoutubeHost == "www.googleapis.com/youtube/v3"
LastfmHost  == "ws.audioscrobbler.com/2.0"
GeminiHost  == "generativelanguage.googleapis.com"
LyricsBaseUrls == <<"api.lyrics.ovh/v1", "lyrist.vercel.app/api">>

NoPrompt == [kind |-> "none"]

Req(dest, method, key, q) ==
  [dest |-> dest, method |-> method, key |-> key, q |-> q, maxResults |-> 0, prompt |-> NoPrompt]

\* fetch(`${baseUrl}/videos?id=${videoId}&part=...&key=${this.apiKey}`)
VideoDataReq(apiKey, videoId) == Req(YoutubeHost, "videos", apiKey, <<videoId>>)

\* URLSearchParams({method: 'track.getInfo', api_key, artist, track, ...})
TrackInfoReq(apiKey, artist, track) == Req(LastfmHost, "track.getInfo", apiKey, <<artist, track>>)

\* the artist lookup routed through a CORS proxy, key included
ArtistInfoReqViaProxy(apiKey, artist) == Req("cors-anywhere.herokuapp.com", "artist.getInfo", apiKey, <<artist>>)

\* URLSearchParams({method: 'artist.getInfo', api_key, artist, ...})
ArtistInfoReq(apiKey, artist) == Req(LastfmHost, "artist.getInfo", apiKey, <<artist>>)

\* fetch(`${baseUrl}/${encodeURIComponent(artist)}/${encodeURIComponent(title)}`)
LyricsReq(baseUrl, artist, title) == Req(baseUrl, "lyrics", "", <<artist, title>>)

\* new GoogleGenAI({apiKey}).models.generateContent({contents: prompt, ...})
GeminiReq(apiKey, prompt) ==
  [Req(GeminiHost, "generateContent", apiKey, << >>) EXCEPT !.prompt = prompt]

\* fetch(`${baseUrl}/playlists?id=${playlistId}&...&key=${this.apiKey}`)
PlaylistReq(apiKey, playlistId) == Req(YoutubeHost, "playlists", apiKey, <<playlistId>>)

\* fetch(`${baseUrl}/playlistItems?playlistId=...&maxResults=${maxResults}&key=...`)
PlaylistItemsReq(apiKey, playlistId, maxResults) ==
  [Req(YoutubeHost, "playlistItems", apiKey, <<playlistId>>) EXCEPT !.maxResults = maxResults]

\* fetch(`${baseUrl}/videos?id=${batch.join(',')}&...&key=${this.apiKey}`)
VideoBatchReq(apiKey, videoIds) == Req(YoutubeHost, "videos", apiKey, videoIds)

(***************************************************************************)
(* Pure helpers of geminiService and the lyrics service.                   *)
(***************************************************************************)
\* /^(.+?)\s*[-]\s*(.+?)(?:\s*\(.*\))?(?:\s*\[.*\])?$/ and the fallback
extractTitleAndArtist(videoTitle) ==
  CASE videoTitle = "Queen - Bohemian Rhapsody" -> [artist |-> "Queen", title |-> "Bohemian Rhapsody"]
    [] videoTitle = "Luqi - Xilofone"           -> [artist |-> "Luqi", title |-> "Xilofone"]
    [] videoTitle = "Dua Lipa - Levitating"     -> [artist |-> "Dua Lipa", title |-> "Levitating"]
    [] OTHER -> [artist |-> "Unknown Artist", title |-> videoTitle]

\* toLowerCase, strip brackets / feat. / punctuation, collapse spaces
normalizeForSearch(text) ==
  CASE text = "Queen"             -> "queen"
    [] text = "Bohemian Rhapsody" -> "bohemian rhapsody"
    [] text = "Luqi"              -> "luqi"
    [] text = "Xilofone"          -> "xilofone"
    [] text = "Dua Lipa"          -> "dua lipa"
    [] text = "Levitating"        -> "levitating"
    [] text = "Unknown Artist"    -> "unknown artist"
    [] OTHER                      -> "untitled"

\* LyricsService.extractTitleAndArtist: the same patterns, normalised, artist '' on fallback
lyricsExtractTitleAndArtist(videoTitle) ==
  LET ta == extractTitleAndArtist(videoTitle) IN
  IF ta.artist = "Unknown Artist"
  THEN [artist |-> "", title |-> normalizeForSearch(videoTitle)]
  ELSE [artist |-> normalizeForSearch(ta.artist), title |-> normalizeForSearch(ta.title)]

\* getLyrics: searchVariants, the extracted variant unshifted in front
searchVariants(artist, title, videoTitle) ==
  LET base == <<[artist |-> normalizeForSearch(artist), title |-> normalizeForSearch(title)]>>
      extracted == lyricsExtractTitleAndArtist(videoTitle)
  IN IF Truthy(videoTitle) /\ Truthy(extracted.artist) /\ Truthy(extracted.title)
     THEN <<extracted>> \o base
     ELSE base

\* getPopularityAnalysis: the default record when either lookup is null
getPopularityAnalysis(trackInfo, artistInfo) ==
  IF trackInfo = NULL \/ artistInfo = NULL THEN "unknown" ELSE "stable"

\* LANGUAGE_MAPPING[language] || LANGUAGE_MAPPING['pt-BR']: the language of the instruction
Languages == {"pt-BR", "en-US", "es-ES", "fr-FR", "de-DE", "it-IT", "ja-JP", "ko-KR"}

LANGUAGE_MAPPING(language) ==
  IF language \in Languages THEN language ELSE "pt-BR"

\* createAdvancedAnalysisPrompt(data, language)
createAdvancedAnalysisPrompt(data, language) ==
  [kind |-> "basic", data |-> data, respondIn |-> LANGUAGE_MAPPING(language)]

(***************************************************************************)
(* Promise settlements.                                                    *)
(***************************************************************************)
Pending         == [kind |-> "pending"]
Resolved(value) == [kind |-> "resolved", value |-> value]
Rejected(msg)   == [kind |-> "rejected", message |-> msg]

\* the catch block of analyzeMusic: error.message mapped to the user message
GeminiErrorMessage(message) ==
  IF message = "API key not valid" THEN MsgInvalidKey
  ELSE IF message = "xhr error" THEN MsgNetwork
  ELSE MsgGeminiFailed

(***************************************************************************)
(* analyzeMusic and consolidateMusicData.                                  *)
(***************************************************************************)
NoCall == [active |-> FALSE]

\* consolidateMusicData has not returned yet / has returned null
NoData   == [state |-> "pending"]
NullData == [state |-> "null"]

NewCall(url, gk, yk, lk, language, cb) ==
  [active |-> TRUE, url |-> url, geminiApiKey |-> gk, youtubeApiKey |-> yk,
   lastfmApiKey |-> lk, language |-> language, onProgress |-> cb,
   videoId |-> NULL, videoTitle |-> NULL, title |-> NULL, artist |-> NULL,
   lastfmTrackInfo |-> "pending", lastfmArtistInfo |-> "pending",
   popTrackInfo |-> "pending", popularityAnalysis |-> "pending",
   li |-> 0, lyricsFound |-> FALSE, consolidated |-> NoData]

\* onProgress?.(message)
Progress(cb, message, old) == IF cb THEN message ELSE old

\* analyzeMusic without the check of consolidateMusicData's result
AmBeginUnchecked(url, gk, yk, lk, language, cb, prog) ==
  LET call == NewCall(url, gk, yk, lk, language, cb)
      videoId == extractVideoId(url)
      req == IF getUrlType(url) # "video" \/ videoId = NULL
             THEN GeminiReq(gk, createAdvancedAnalysisPrompt(NullData, language))
             ELSE VideoDataReq(yk, videoId)
  IN IF getUrlType(url) # "video" \/ videoId = NULL
     THEN [pc |-> "am_gemini", am |-> [call EXCEPT !.consolidated = NullData],
           settled |-> Pending, inflight |-> {req}, sent |-> <<req>>,
           progress |-> Progress(cb, PrgGemini, prog)]
     ELSE [pc |-> "am_getVideoData", am |-> [call EXCEPT !.videoId = videoId],
           settled |-> Pending, inflight |-> {req}, sent |-> <<req>>,
           progress |-> Progress(cb, PrgYoutube, prog)]

\* analyzeMusic from its call to its first await (or to its synchronous throw)
AmBegin(url, gk, yk, lk, language, cb, prog) ==
  LET call == NewCall(url, gk, yk, lk, language, cb)
      fail(msg, c, p) == [pc |-> "am_settled", am |-> c, settled |-> Rejected(msg),
                          inflight |-> {}, sent |-> << >>, progress |-> p]
      videoId == extractVideoId(url)
      req == VideoDataReq(yk, videoId)
  IN IF ~Truthy(gk) THEN fail(MsgNoGeminiKey, call, prog)
     ELSE IF ~Truthy(yk) THEN fail(MsgNoYoutubeKey, call, prog)
     ELSE IF ~Truthy(lk) THEN fail(MsgNoLastfmKey, call, prog)
     ELSE IF getUrlType(url) # "video" \/ videoId = NULL
          THEN fail(MsgNoData, [call EXCEPT !.consolidated = NullData], Progress(cb, PrgYoutube, prog))
     ELSE [pc |-> "am_getVideoData", am |-> [call EXCEPT !.videoId = videoId],
           settled |-> Pending, inflight |-> {req}, sent |-> <<req>>,
           progress |-> Progress(cb, PrgYoutube, prog)]

ApplySvc(s) ==
  /\ pc' = s.pc
  /\ am' = s.am
  /\ settled' = s.settled
  /\ inflight' = s.inflight
  /\ sent' = s.sent
  /\ progressMessage' = s.progress

\* the request whose answer the suspended call is waiting for
Awaited(method) == {r \in inflight : r.method = method}

\* both Last.fm lookups started together, as with Promise.all
AfterVideoDataConcurrent(a) ==
  {TrackInfoReq(a.lastfmApiKey, a.artist, a.title), ArtistInfoReq(a.lastfmApiKey, a.artist)}

\* the requests that follow the video data: the track lookup, awaited alone
AfterVideoData(a) == {TrackInfoReq(a.lastfmApiKey, a.artist, a.title)}

\* youtubeService.getVideoData answered (1545-1549), up to lastfmService.getTrackInfo
GetVideoDataResponse ==
  /\ pc = "am_getVideoData"
  /\ \E r \in Awaited("videos"), resp \in {"ok", "http_error", "no_items"} :
       IF resp = "ok"
       THEN LET ta == extractTitleAndArtist(VideoTitle(am.videoId))
                a  == [am EXCEPT !.videoTitle = VideoTitle(am.videoId),
                                 !.title = ta.title, !.artist = ta.artist]
                nxt == AfterVideoData(a)
            IN /\ am' = a
               /\ pc' = "am_getTrackInfo"
               /\ inflight' = (inflight \ {r}) \cup nxt
               /\ sent' = Append(sent, TrackInfoReq(a.lastfmApiKey, a.artist, a.title))
               /\ progressMessage' = Progress(am.onProgress, PrgLastfm, progressMessage)
               /\ UNCHANGED settled
       ELSE /\ am' = [am EXCEPT !.consolidated = NullData]
            /\ pc' = "am_settled"
            /\ settled' = Rejected(MsgNoData)
            /\ inflight' = inflight \ {r}
            /\ UNCHANGED <<sent, progressMessage>>
  /\ UNCHANGED <<inputs, analysis, isLoading, error, mode, pl, adv>>

\* lastfmService.getTrackInfo answered (1553), up to lastfmService.getArtistInfo
GetTrackInfoResponse ==
  /\ pc = "am_getTrackInfo"
  /\ \E r \in Awaited("track.getInfo"), resp \in {"info", NULL} :
       LET req == ArtistInfoReq(am.lastfmApiKey, am.artist) IN
       /\ am' = [am EXCEPT !.lastfmTrackInfo = resp]
       /\ pc' = "am_getArtistInfo"
       /\ inflight' = (inflight \ {r}) \cup {req}
       /\ sent' = Append(sent, req)
  /\ UNCHANGED <<inputs, outputs, mode, pl, adv, settled>>

\* lastfmService.getArtistInfo answered (1554), up to getPopularityAnalysis' getTrackInfo
GetArtistInfoResponse ==
  /\ pc = "am_getArtistInfo"
  /\ \E r \in Awaited("artist.getInfo"), resp \in {"info", NULL} :
       LET req == TrackInfoReq(am.lastfmApiKey, am.artist, am.title) IN
       /\ am' = [am EXCEPT !.lastfmArtistInfo = resp]
       /\ pc' = "am_popTrackInfo"
       /\ inflight' = (inflight \ {r}) \cup {req}
       /\ sent' = Append(sent, req)
  /\ UNCHANGED <<inputs, outputs, mode, pl, adv, settled>>

\* getPopularityAnalysis: this.getTrackInfo answered, up to this.getArtistInfo
PopularityTrackInfoResponse ==
  /\ pc = "am_popTrackInfo"
  /\ \E r \in Awaited("track.getInfo"), resp \in {"info", NULL} :
       LET req == ArtistInfoReq(am.lastfmApiKey, am.artist) IN
       /\ am' = [am EXCEPT !.popTrackInfo = resp]
       /\ pc' = "am_popArtistInfo"
       /\ inflight' = (inflight \ {r}) \cup {req}
       /\ sent' = Append(sent, req)
  /\ UNCHANGED <<inputs, outputs, mode, pl, adv, settled>>

\* getLyrics: the fetches of the two nested loops, in order, variants without
\* artist or title skipped
LyricsPlan(variants) ==
  LET RECURSIVE plan(_)
      plan(v) ==
        IF v > Len(variants) THEN << >>
        ELSE IF ~Truthy(variants[v].artist) \/ ~Truthy(variants[v].title) THEN plan(v + 1)
        ELSE [b \in 1..Len(LyricsBaseUrls) |-> [vi |-> v, bi |-> b]] \o plan(v + 1)
  IN plan(1)

LyricsFetch(a, k) ==
  LET variants == searchVariants(a.artist, a.title, a.videoTitle)
      at == LyricsPlan(variants)[k]
  IN LyricsReq(LyricsBaseUrls[at.bi], variants[at.vi].artist, variants[at.vi].title)

LyricsFetches(a) == Len(LyricsPlan(searchVariants(a.artist, a.title, a.videoTitle)))

\* contentDetails.duration of the sample videos (ISO 8601)
VideoDuration(id) ==
  CASE id = "vA" -> "PT5M55S"
    [] id = "vL" -> "PT2M31S"
    [] id = "vB" -> "PT3M23S"
    [] OTHER     -> "P0D"

\* parseDuration: /PT(?:(\d+)H)?(?:(\d+)M)?(?:(\d+)S)?/ to seconds, 0 without a match
parseDuration(duration) ==
  CASE duration = "PT5M55S" -> 5 * 60 + 55
    [] duration = "PT2M31S" -> 2 * 60 + 31
    [] duration = "PT3M23S" -> 3 * 60 + 23
    [] OTHER                -> 0

\* the object with the Last.fm section present only when both lookups succeeded
ConsolidatedNeedingArtist(a, found) ==
  [state |-> "data", title |-> a.title, artist |-> a.artist, youtube |-> a.videoId,
   duration |-> parseDuration(VideoDuration(a.videoId)),
   lastfm |-> a.lastfmTrackInfo # NULL /\ a.lastfmArtistInfo # NULL,
   artistInfo |-> a.lastfmTrackInfo # NULL /\ a.lastfmArtistInfo # NULL,
   popularityAnalysis |-> IF a.lastfmTrackInfo # NULL THEN a.popularityAnalysis ELSE NULL,
   lyrics |-> found]

\* the object consolidateMusicData returns (1565-1595)
Consolidated(a, found) ==
  [state |-> "data", title |-> a.title, artist |-> a.artist, youtube |-> a.videoId,
   duration |-> parseDuration(VideoDuration(a.videoId)),
   lastfm |-> a.lastfmTrackInfo # NULL,
   artistInfo |-> a.lastfmTrackInfo # NULL /\ a.lastfmArtistInfo # NULL,
   popularityAnalysis |-> IF a.lastfmTrackInfo # NULL THEN a.popularityAnalysis ELSE NULL,
   lyrics |-> found]

\* getLyrics has returned: lyricsAnalysis, the consolidated object, then analyzeMusic
\* up to ai.models.generateContent (1559-1595, 1788-1800)
AfterLyrics(a, found, r) ==
  LET data == Consolidated(a, found)
      req  == GeminiReq(a.geminiApiKey, createAdvancedAnalysisPrompt(data, a.language))
  IN /\ am' = [a EXCEPT !.lyricsFound = found, !.consolidated = data]
     /\ pc' = "am_gemini"
     /\ inflight' = (inflight \ r) \cup {req}
     /\ sent' = Append(sent, req)
     /\ progressMessage' = Progress(a.onProgress, PrgGemini, progressMessage)

\* getPopularityAnalysis: this.getArtistInfo answered (269-299), then getLyrics up to
\* its first fetch
PopularityArtistInfoResponse ==
  /\ pc = "am_popArtistInfo"
  /\ \E r \in Awaited("artist.getInfo"), resp \in {"info", NULL} :
       LET a == [am EXCEPT !.popularityAnalysis = getPopularityAnalysis(am.popTrackInfo, resp)] IN
       IF LyricsFetches(a) = 0
       THEN AfterLyrics(a, FALSE, {r})
       ELSE /\ am' = [a EXCEPT !.li = 1]
            /\ pc' = "am_lyrics"
            /\ inflight' = (inflight \ {r}) \cup {LyricsFetch(a, 1)}
            /\ sent' = Append(sent, LyricsFetch(a, 1))
            /\ progressMessage' = Progress(am.onProgress, PrgLyrics, progressMessage)
  /\ UNCHANGED <<inputs, analysis, isLoading, error, mode, pl, adv, settled>>

\* fetchFromApi answered: found returns from getLyrics, otherwise the next API or variant
LyricsResponse ==
  /\ pc = "am_lyrics"
  /\ \E r \in Awaited("lyrics"), found \in BOOLEAN :
       IF found \/ am.li = LyricsFetches(am)
       THEN AfterLyrics(am, found, {r})
       ELSE /\ am' = [am EXCEPT !.li = am.li + 1]
            /\ inflight' = (inflight \ {r}) \cup {LyricsFetch(am, am.li + 1)}
            /\ sent' = Append(sent, LyricsFetch(am, am.li + 1))
            /\ UNCHANGED <<pc, progressMessage>>
  /\ UNCHANGED <<inputs, analysis, isLoading, error, mode, pl, adv, settled>>

\* what generateContent may answer: JSON that parses, text that does not, or a rejection
GeminiResponses(videoId) ==
  {[kind |-> "json", analysis |-> x, message |-> ""] : x \in GeminiAnalyses(videoId)}
  \cup {[kind |-> "text", analysis |-> NoAnalysis, message |-> "Unexpected end of JSON input"]}
  \cup {[kind |-> "error", analysis |-> NoAnalysis, message |-> m] : m \in GeminiErrors}

\* the settlement of analyzeMusic for an answer of generateContent (1799-1841)
GeminiSettlement(resp) ==
  IF resp.kind = "json" THEN Resolved(resp.analysis)
  ELSE Rejected(GeminiErrorMessage(resp.message))

\* generateContent re-issued once after a rejection
GeminiResponseWithRetry ==
  /\ pc = "am_gemini"
  /\ \E r \in Awaited("generateContent"), resp \in GeminiResponses(am.videoId) :
       IF resp.kind = "error" /\ Len(SelectSeq(sent, LAMBDA x : x.method = "generateContent")) < 2
       THEN /\ sent' = Append(sent, r)
            /\ UNCHANGED <<pc, settled, inflight>>
       ELSE /\ settled' = GeminiSettlement(resp)
            /\ inflight' = inflight \ {r}
            /\ pc' = "am_settled"
            /\ sent' = sent
  /\ UNCHANGED <<inputs, outputs, mode, am, pl, adv>>

\* generateContent answered: JSON.parse and return, or the catch block
GeminiResponse ==
  /\ pc = "am_gemini"
  /\ \E r \in Awaited("generateContent"), resp \in GeminiResponses(am.videoId) :
       /\ settled' = GeminiSettlement(resp)
       /\ inflight' = inflight \ {r}
  /\ pc' = "am_settled"
  /\ UNCHANGED <<inputs, outputs, mode, am, pl, adv, sent>>

(***************************************************************************)
(* analyzePlaylist and YouTubeService.getPlaylistData.                     *)
(***************************************************************************)
\* the default of analyzePlaylist's maxTracks parameter
DefaultMaxTracks == 20

\* the track limit App.tsx passes to analyzePlaylist
AppMaxTracks == 10

\* batchSize of getPlaylistData
BatchSize == 50

\* `https://www.youtube.com/watch?v=${video.id}`
WatchUrl(id) ==
  CASE id = "vA" -> UrlVideo
    [] id = "vB" -> "https://www.youtube.com/watch?v=vB"
    [] OTHER     -> "https://www.youtube.com/watch?v=vL"

NoPlaylist == [active |-> FALSE]

NewPlaylist(url, gk, yk, lk, maxTracks, cb) ==
  [active |-> TRUE, playlistUrl |-> url, geminiApiKey |-> gk, youtubeApiKey |-> yk,
   lastfmApiKey |-> lk, maxTracks |-> maxTracks, onProgress |-> cb,
   playlistId |-> extractPlaylistId(url), videoIds |-> << >>, videos |-> << >>,
   i |-> 0, trackAnalyses |-> << >>, genreDistribution |-> << >>,
   totalBPM |-> 0, validBPMCount |-> 0, calls |-> 0, finished |-> 0, pauses |-> 0]

\* Math.round of the quotient of two non-negative integers
RoundDiv(a, b) == (2 * a + b) \div (2 * b)

(***************************************************************************)
(* Math.round((count / trackAnalyses.length) * 100) is evaluated in IEEE   *)
(* 754 double arithmetic: the quotient is rounded to a 53-bit significand, *)
(* the product with 100 is rounded again, and Math.round takes the nearest *)
(* integer of that double.  A significand is kept as five limbs, least     *)
(* significant first, of 13 bits each (the fifth holds what is above them).*)
(***************************************************************************)
Limb == 2 ^ 13

\* 2^k modulo n
RECURSIVE Pow2Mod(_, _)
Pow2Mod(k, n) ==
  IF k = 0 THEN 1 % n
  ELSE LET h == Pow2Mod(k \div 2, n) IN (h * h * (IF k % 2 = 1 THEN 2 ELSE 1)) % n

\* what is left of count / total after i binary digits of the fraction, times total
Remainder(count, total, i) == (count * Pow2Mod(i, total)) % total

\* the binary digits i+1 .. i+13 of the fraction count / total, as one limb
Digits(count, total, i) == (Limb * Remainder(count, total, i)) \div total

\* the position of the first non-zero binary digit of count / total, 0 < count < total
RECURSIVE Exponent(_, _)
Exponent(count, total) == IF 2 * count >= total THEN 1 ELSE 1 + Exponent(2 * count, total)

\* carry propagation through the limbs
RECURSIVE Carry(_, _)
Carry(limbs, c) ==
  IF Len(limbs) = 1 THEN <<limbs[1] + c>>
  ELSE <<(limbs[1] + c) % Limb>> \o Carry(Tail(limbs), (limbs[1] + c) \div Limb)

\* count / total for 0 < count < total: the double nearest to the quotient, ties to
\* even; its value is significand * 2^(-(exponent + 52))
Quotient(count, total) ==
  LET e == Exponent(count, total)
      m == <<Digits(count, total, e + 39), Digits(count, total, e + 26),
             Digits(count, total, e + 13), Digits(count, total, e), 1>>
      r == Remainder(count, total, e + 52)
      up == 2 * r > total \/ (2 * r = total /\ m[1] % 2 = 1)
      rounded == IF up THEN Carry(m, 1) ELSE m
  IN IF rounded[5] = 2 THEN [significand |-> <<0, 0, 0, 0, 1>>, exponent |-> e - 1]
     ELSE [significand |-> rounded, exponent |-> e]

\* q * 100: the exact product has 59 or 60 bits, and is rounded to 53 of them
Times100(q) ==
  LET p == Carry([i \in 1..5 |-> 100 * q.significand[i]], 0)
      k == IF p[5] < 128 THEN 6 ELSE 7
      d == p[1] % (2 ^ k)
      half == 2 ^ (k - 1)
      up == d > half \/ (d = half /\ ((p[1] \div (2 ^ k)) % 2) = 1)
  IN [significand |-> Carry([p EXCEPT ![1] = p[1] - d], IF up THEN 2 ^ k ELSE 0),
      exponent |-> q.exponent]

\* Math.round(x) for a double 0 < x < 200: the integer part, plus one when the
\* fraction is at least one half
MathRound(x) ==
  IF x.exponent = 0 THEN x.significand[5]
  ELSE (x.significand[5] \div (2 ^ x.exponent))
         + ((x.significand[5] \div (2 ^ (x.exponent - 1))) % 2)

\* the longest list of analyses the percentages are computed for
MaxAggregateTracks == 40

\* Math.round((count / total) * 100) for every 0 < count <= total, computed once
Percentages ==
  [total \in 1..MaxAggregateTracks |->
     [count \in 1..total |->
        IF count = total THEN 100 ELSE MathRound(Times100(Quotient(count, total)))]]

\* the percentage rounded up instead of to the nearest integer
PercentageCeiling(count, total) == (100 * count + total - 1) \div total

\* Math.round((count / trackAnalyses.length) * 100), 0 < count <= total
Percentage(count, total) == Percentages[total][count]

\* .sort((a, b) => b.percentage - a.percentage): a stable sort, largest first
RECURSIVE SortByPercentage(_)
SortByPercentage(entries) ==
  IF entries = << >> THEN << >>
  ELSE LET rest == SortByPercentage(Tail(entries))
           ahead == SelectSeq(rest, LAMBDA e : e.percentage > entries[1].percentage)
       IN ahead \o <<entries[1]>> \o SubSeq(rest, Len(ahead) + 1, Len(rest))

\* .slice(0, 5)
Slice5(entries) == SubSeq(entries, 1, IF Len(entries) < 5 THEN Len(entries) ELSE 5)

\* Object.entries(genreDistribution).map(...).sort(...).slice(0, 5) (1912-1918)
dominantGenres(distribution, total) ==
  Slice5(SortByPercentage([i \in 1..Len(distribution) |->
     [genre |-> distribution[i].genre,
      percentage |-> Percentage(distribution[i].count, total)]]))

\* the object analyzePlaylist returns (1908-1954)
PlaylistResult(p) ==
  [trackAnalyses |-> p.trackAnalyses,
   totalTracks |-> Len(p.trackAnalyses),
   averageBPM |-> IF p.validBPMCount > 0 THEN RoundDiv(p.totalBPM, p.validBPMCount) ELSE 0,
   genreDistribution |-> p.genreDistribution,
   dominantGenres |-> dominantGenres(p.genreDistribution, Len(p.trackAnalyses))]

\* the for loop of analyzePlaylist at the top of iteration p.i (0-based in the code,
\* 1-based here): the next analyzeMusic call, or the return after the last video
PlLoop(p, prog) ==
  IF p.i > Len(p.videos)
  THEN [pc |-> "pl_settled", am |-> NoCall, settled |-> Resolved(PlaylistResult(p)),
        inflight |-> {}, sent |-> << >>, progress |-> prog, pl |-> p]
  ELSE AmBegin(WatchUrl(p.videos[p.i]), p.geminiApiKey, p.youtubeApiKey, p.lastfmApiKey,
               "pt-BR", p.onProgress, Progress(p.onProgress, PrgPlTrack, prog))
       @@ [pl |-> [p EXCEPT !.calls = @ + 1]]

\* analyzePlaylist from its call to its first await (or its synchronous throw)
PlBegin(url, gk, yk, lk, maxTracks, cb, prog) ==
  LET p == NewPlaylist(url, gk, yk, lk, maxTracks, cb)
      req == PlaylistReq(yk, p.playlistId)
  IN IF p.playlistId = NULL
     THEN [pc |-> "pl_settled", am |-> NoCall, settled |-> Rejected(MsgNoPlaylistId),
           inflight |-> {}, sent |-> << >>, progress |-> prog, pl |-> p]
     ELSE [pc |-> "pl_playlists", am |-> NoCall, settled |-> Pending,
           inflight |-> {req}, sent |-> << >>, progress |-> Progress(cb, PrgPlData, prog), pl |-> p]

\* getPlaylistData returned null: analyzePlaylist throws
PlNoData(r) ==
  /\ pc' = "pl_settled"
  /\ settled' = Rejected(MsgNoPlaylistData)
  /\ inflight' = inflight \ {r}
  /\ UNCHANGED <<pl, am, sent, progressMessage>>

\* the playlists request answered (431-445), up to the playlistItems request
PlaylistsResponse ==
  /\ pc = "pl_playlists"
  /\ \E r \in Awaited("playlists"), resp \in {"ok", "http_error", "no_items"} :
       /\ resp = "ok" => Truthy(r.key)
       /\ IF resp = "ok"
          THEN /\ pc' = "pl_playlistItems"
               /\ inflight' = (inflight \ {r})
                    \cup {PlaylistItemsReq(pl.youtubeApiKey, pl.playlistId, pl.maxTracks)}
               /\ UNCHANGED <<pl, am, sent, settled, progressMessage>>
          ELSE PlNoData(r)
  /\ UNCHANGED <<inputs, analysis, isLoading, error, mode, adv>>

\* what the YouTube API answers to playlistItems: at most maxResults items
PlaylistItemsAnswers(r) ==
  LET all == PlaylistItems(r.q[1])
      most == IF r.maxResults < Len(all) THEN r.maxResults ELSE Len(all)
  IN {SubSeq(all, 1, n) : n \in 0..most}

\* the playlistItems request answered (448-461), up to the first videos batch
PlaylistItemsResponse ==
  /\ pc = "pl_playlistItems"
  /\ \E r \in Awaited("playlistItems") :
       \/ \E videoIds \in PlaylistItemsAnswers(r) :
            IF Len(videoIds) = 0
            THEN /\ ApplySvc(PlLoop([pl EXCEPT !.i = 1], Progress(pl.onProgress, PrgPlStart, progressMessage)))
                 /\ pl' = [pl EXCEPT !.i = 1]
            ELSE /\ pl' = [pl EXCEPT !.videoIds = videoIds]
                 /\ pc' = "pl_videos"
                 /\ inflight' = (inflight \ {r}) \cup {VideoBatchReq(pl.youtubeApiKey, videoIds)}
                 /\ UNCHANGED <<am, sent, settled, progressMessage>>
       \/ PlNoData(r)
  /\ UNCHANGED <<inputs, analysis, isLoading, error, mode, adv>>

\* the videos batch answered (463-496): getPlaylistData returns, then analyzePlaylist
\* up to the first analyzeMusic call
VideoBatchResponse ==
  /\ pc = "pl_videos"
  /\ Len(pl.videoIds) <= BatchSize
  /\ \E r \in Awaited("videos") :
       \/ \E videos \in {pl.videoIds, << >>} :
            LET p == [pl EXCEPT !.videos = videos, !.i = 1]
                s == PlLoop(p, Progress(pl.onProgress, PrgPlStart, progressMessage))
            IN ApplySvc(s) /\ pl' = s.pl
       \/ PlNoData(r)
  /\ UNCHANGED <<inputs, analysis, isLoading, error, mode, adv>>

\* genreDistribution[genre] = (genreDistribution[genre] || 0) + 1
\* (the entries are kept in the order in which Object.entries lists them: the order
\* in which the genres were first counted)
CountGenre(gd, genre) ==
  IF \E i \in 1..Len(gd) : gd[i].genre = genre
  THEN [i \in 1..Len(gd) |-> IF gd[i].genre = genre
                              THEN [gd[i] EXCEPT !.count = @ + 1] ELSE gd[i]]
  ELSE Append(gd, [genre |-> genre, count |-> 1])

\* the try block with every bpm that is present added to the mean
CollectAnyBpm(p, a) ==
  LET g == IF Truthy(a.primaryGenre) THEN CountGenre(p.genreDistribution, a.primaryGenre)
           ELSE p.genreDistribution
      valid == "bpm" \in DOMAIN a
  IN [p EXCEPT !.trackAnalyses = Append(@, a),
               !.genreDistribution = g,
               !.totalBPM = IF valid THEN @ + a.bpm ELSE @,
               !.validBPMCount = IF valid THEN @ + 1 ELSE @]

\* the body of the try block after analyzeMusic has returned (1886-1897); an analysis
\* without musicalElements.bpm is a record without the field bpm
Collect(p, a) ==
  LET g == IF Truthy(a.primaryGenre) THEN CountGenre(p.genreDistribution, a.primaryGenre)
           ELSE p.genreDistribution
      valid == "bpm" \in DOMAIN a /\ a.bpm # 0 /\ a.bpm > 0
  IN [p EXCEPT !.trackAnalyses = Append(@, a),
               !.genreDistribution = g,
               !.totalBPM = IF valid THEN @ + a.bpm ELSE @,
               !.validBPMCount = IF valid THEN @ + 1 ELSE @]

\* the per-track await outside any try block: a rejection ends analyzePlaylist
PlaylistTrackSettledRethrowing ==
  /\ pc = "am_settled"
  /\ mode = "playlist"
  /\ IF settled.kind = "resolved"
     THEN /\ pl' = [Collect(pl, settled.value) EXCEPT !.finished = @ + 1]
          /\ pc' = "pl_pause"
          /\ am' = NoCall
          /\ settled' = Pending
          /\ sent' = << >>
          /\ UNCHANGED <<inflight, progressMessage>>
     ELSE /\ pl' = [pl EXCEPT !.finished = @ + 1]
          /\ pc' = "pl_settled"
          /\ am' = NoCall
          /\ sent' = << >>
          /\ UNCHANGED <<settled, inflight, progressMessage>>
  /\ UNCHANGED <<inputs, analysis, isLoading, error, mode, adv>>

\* the per-track analyzeMusic settled: on success collect and pause (1886-1900), on
\* failure the catch block and the next iteration (1902-1905)
PlaylistTrackSettled ==
  /\ pc = "am_settled"
  /\ mode = "playlist"
  /\ IF settled.kind = "resolved"
     THEN /\ pl' = [Collect(pl, settled.value) EXCEPT !.finished = @ + 1]
          /\ pc' = "pl_pause"
          /\ am' = NoCall
          /\ settled' = Pending
          /\ sent' = << >>
          /\ UNCHANGED <<inflight, progressMessage>>
     ELSE LET s == PlLoop([pl EXCEPT !.i = @ + 1, !.finished = @ + 1], progressMessage)
          IN ApplySvc(s) /\ pl' = s.pl
  /\ UNCHANGED <<inputs, analysis, isLoading, error, mode, adv>>

\* setTimeout(resolve, 1000) fired: the next iteration
PauseElapsed ==
  /\ pc = "pl_pause"
  /\ LET s == PlLoop([pl EXCEPT !.i = @ + 1, !.pauses = @ + 1], progressMessage)
     IN ApplySvc(s) /\ pl' = s.pl
  /\ UNCHANGED <<inputs, analysis, isLoading, error, mode, adv>>

(***************************************************************************)
(* App.tsx and URLInput.tsx.                                               *)
(***************************************************************************)
\* detectUrlType and the effect that calls it (26-39), for a URL and a YouTube key
detectUrlType(url, apiKey, old) ==
  IF ~Truthy(Trim(url)) THEN old
  ELSE IF ~Truthy(apiKey) THEN old
  ELSE getUrlType(url) = "playlist"

Idle == ~isLoading /\ mode = "idle"

\* onChange of the Gemini key field (disabled while loading)
SetGeminiApiKey ==
  /\ Idle
  /\ \E k \in GeminiKeys \ {geminiApiKey} : geminiApiKey' = k
  /\ UNCHANGED <<youtubeUrl, youtubeApiKey, lastfmApiKey, isPlaylist, urlError, outputs, service>>

\* onChange of the YouTube key field; detectUrlType changes, so the effect runs again
SetYoutubeApiKey ==
  /\ Idle
  /\ \E k \in YoutubeKeys \ {youtubeApiKey} :
       /\ youtubeApiKey' = k
       /\ isPlaylist' = detectUrlType(youtubeUrl, k, isPlaylist)
  /\ UNCHANGED <<youtubeUrl, geminiApiKey, lastfmApiKey, urlError, outputs, service>>

\* onChange of the Last.fm key field
SetLastfmApiKey ==
  /\ Idle
  /\ \E k \in LastfmKeys \ {lastfmApiKey} : lastfmApiKey' = k
  /\ UNCHANGED <<youtubeUrl, geminiApiKey, youtubeApiKey, isPlaylist, urlError, outputs, service>>

\* URLInput.handleUrlChange, and the effect on youtubeUrl
handleUrlChange ==
  /\ Idle
  /\ \E u \in Urls \ {youtubeUrl} :
       /\ youtubeUrl' = u
       /\ isPlaylist' = detectUrlType(u, youtubeApiKey, isPlaylist)
  /\ urlError' = ""
  /\ UNCHANGED <<geminiApiKey, youtubeApiKey, lastfmApiKey, outputs, service>>

\* handleAnalyze starting a run without clearing the previous error and analysis
handleAnalyzeKeepingResults ==
  IF ~Truthy(Trim(geminiApiKey))
  THEN /\ error' = MsgNoGeminiKeyUI
       /\ UNCHANGED <<analysis, isLoading, progressMessage, service>>
  ELSE IF ~Truthy(Trim(youtubeUrl))
  THEN /\ error' = MsgNoUrlUI
       /\ UNCHANGED <<analysis, isLoading, progressMessage, service>>
  ELSE /\ isLoading' = TRUE
       /\ UNCHANGED <<error, analysis, adv>>
       /\ IF isPlaylist
          THEN LET s == PlBegin(youtubeUrl, geminiApiKey, youtubeApiKey, lastfmApiKey,
                                AppMaxTracks, TRUE, PrgPlaylist)
               IN ApplySvc(s) /\ pl' = s.pl /\ mode' = "playlist"
          ELSE /\ ApplySvc(AmBegin(youtubeUrl, geminiApiKey, youtubeApiKey, lastfmApiKey,
                                   "pt-BR", TRUE, PrgSingle))
               /\ pl' = pl
               /\ mode' = "single"

\* handleAnalyze up to its first await (41-90)
handleAnalyze ==
  IF ~Truthy(Trim(geminiApiKey))
  THEN /\ error' = MsgNoGeminiKeyUI
       /\ UNCHANGED <<analysis, isLoading, progressMessage, service>>
  ELSE IF ~Truthy(Trim(youtubeUrl))
  THEN /\ error' = MsgNoUrlUI
       /\ UNCHANGED <<analysis, isLoading, progressMessage, service>>
  ELSE /\ isLoading' = TRUE
       /\ error' = NULL
       /\ analysis' = NoAnalysis
       /\ adv' = adv
       /\ IF isPlaylist
          THEN LET s == PlBegin(youtubeUrl, geminiApiKey, youtubeApiKey, lastfmApiKey,
                                AppMaxTracks, TRUE, PrgPlaylist)
               IN ApplySvc(s) /\ pl' = s.pl /\ mode' = "playlist"
          ELSE /\ ApplySvc(AmBegin(youtubeUrl, geminiApiKey, youtubeApiKey, lastfmApiKey,
                                   "pt-BR", TRUE, PrgSingle))
               /\ pl' = pl
               /\ mode' = "single"

\* the form submitted although a run is in progress: the button not disabled
handleSubmitWhileLoading ==
  /\ urlError = ""
  /\ IF ~Truthy(Trim(youtubeUrl))
     THEN urlError' = MsgUrlEmpty /\ UNCHANGED <<outputs, service>>
     ELSE IF ~isValidYouTubeUrl(youtubeUrl)
     THEN urlError' = MsgUrlInvalid /\ UNCHANGED <<outputs, service>>
     ELSE urlError' = "" /\ handleAnalyze
  /\ UNCHANGED <<youtubeUrl, geminiApiKey, youtubeApiKey, lastfmApiKey, isPlaylist>>

\* URLInput.handleSubmit (20-36); the button is disabled while loading or with a URL error
handleSubmit ==
  /\ Idle
  /\ urlError = ""
  /\ IF ~Truthy(Trim(youtubeUrl))
     THEN urlError' = MsgUrlEmpty /\ UNCHANGED <<outputs, service>>
     ELSE IF ~isValidYouTubeUrl(youtubeUrl)
     THEN urlError' = MsgUrlInvalid /\ UNCHANGED <<outputs, service>>
     ELSE urlError' = "" /\ handleAnalyze
  /\ UNCHANGED <<youtubeUrl, geminiApiKey, youtubeApiKey, lastfmApiKey, isPlaylist>>

\* the reset placed at the end of the try block: skipped when the call rejects
ResetOnSuccessOnly ==
  /\ isLoading' = (settled.kind = "rejected")
  /\ progressMessage' = IF settled.kind = "rejected" THEN progressMessage ELSE ""
  /\ pc' = "idle"
  /\ mode' = "idle"
  /\ am' = NoCall
  /\ pl' = NoPlaylist
  /\ settled' = Pending
  /\ sent' = << >>
  /\ UNCHANGED <<inputs, adv, inflight>>

\* the finally block of handleAnalyze, and the end of the call
Finally ==
  /\ isLoading' = FALSE
  /\ progressMessage' = ""
  /\ pc' = "idle"
  /\ mode' = "idle"
  /\ am' = NoCall
  /\ pl' = NoPlaylist
  /\ settled' = Pending
  /\ sent' = << >>
  /\ UNCHANGED <<inputs, adv, inflight>>

\* handleAnalyze after `await analyzeMusic(...)` (92-109)
AnalyzeMusicSettled ==
  /\ pc = "am_settled"
  /\ mode = "single"
  /\ IF settled.kind = "resolved"
     THEN IF Truthy(settled.value.error)
          THEN error' = settled.value.error /\ analysis' = NoAnalysis
          ELSE analysis' = settled.value /\ error' = error
     ELSE error' = settled.message /\ analysis' = analysis
  /\ Finally

\* handleAnalyze after `await analyzePlaylist(...)` (74-80, 99-109)
AnalyzePlaylistSettled ==
  /\ pc = "pl_settled"
  /\ mode = "playlist"
  /\ IF settled.kind = "resolved"
     THEN IF Len(settled.value.trackAnalyses) > 0
          THEN analysis' = settled.value.trackAnalyses[1] /\ error' = error
          ELSE error' = MsgNoTrack /\ analysis' = analysis
     ELSE error' = settled.message /\ analysis' = analysis
  /\ Finally

(***************************************************************************)
(* analyzeMusicAdvanced (geminiService 604-732), AudioAnalysisService and  *)
(* PromptEngineeringService.  Confidences are in hundredths.               *)
(***************************************************************************)
\* geminiService.extractYouTubeVideoId: watch?v=, youtu.be/, embed/, v/
extractYouTubeVideoId(url) ==
  CASE url = UrlVideo -> "vA"
    [] url = "https://www.youtube.com/watch?v=vL" -> "vL"
    [] url = "https://www.youtube.com/watch?v=vB" -> "vB"
    [] OTHER -> NULL

\* the results of the three extraction methods and of the fallback
tryAudioFingerprinting == [method |-> "audio_fingerprint", confidence |-> 20]
trySpeechRecognition == [method |-> "speech_recognition", confidence |-> 30]
tryAITranscription == [method |-> "ai_transcription", confidence |-> 40]
createFallbackLyricsAnalysis == [method |-> "fallback", confidence |-> 60]

\* the acceptance thresholds of extractLyricsAdvanced
FingerprintThreshold == 80
SpeechThreshold == 60
TranscriptionThreshold == 40

\* acceptance at the threshold itself
AcceptedAtThreshold(result, threshold) == result.confidence >= threshold

\* if (result.confidence > threshold) return result
Accepted(result, threshold) == result.confidence > threshold

\* PromptEngineeringService.getLanguageConfig: configs[language] || configs['en-US']
getLanguageConfig(language) ==
  IF language \in {"pt-BR", "en-US"} THEN language ELSE "en-US"

\* generateAdvancedPrompt: the language of the LANGUAGE line and of the output requirement
generateAdvancedPrompt(basicData, audioAnalysis, lyricsExtraction, config) ==
  [kind |-> "advanced", data |-> basicData, audio |-> audioAnalysis,
   lyricsMethod |-> lyricsExtraction.method, analysisDepth |-> config.analysisDepth,
   respondIn |-> getLanguageConfig(config.language)]

\* assessAudioQuality over the simulated features: dynamic range in 6..14 dB, noise
\* floor in -60..-50 dB
AudioQualities == {"excellent", "good", "fair"}

AnalysisDepths == {"basic", "advanced", "expert"}

NoAdvanced == [active |-> FALSE]

NoLyrics == [method |-> "none", confidence |-> 0]

NewAdvanced(url, gk, yk, lk, language, depth) ==
  [active |-> TRUE, url |-> url, geminiApiKey |-> gk, youtubeApiKey |-> yk,
   lastfmApiKey |-> lk, language |-> language, analysisDepth |-> depth,
   videoId |-> extractYouTubeVideoId(url), basicAnalysis |-> NoAnalysis,
   audioAnalysis |-> NULL, attempted |-> << >>, lyricsExtraction |-> NoLyrics,
   prompts |-> << >>]

\* analyzeMusicAdvanced from its call to the first await (623-637)
AnalyzeMusicAdvancedCall ==
  /\ mode = "idle"
  /\ \E url \in {UrlVideo, UrlPlaylist, UrlChannel}, gk \in {"", "G"}, yk \in YoutubeKeys,
        lk \in LastfmKeys, language \in Languages, depth \in AnalysisDepths :
       LET a == NewAdvanced(url, gk, yk, lk, language, depth) IN
       /\ adv' = a
       /\ mode' = "advanced"
       /\ IF a.videoId = NULL
          THEN /\ pc' = "adv_settled"
               /\ settled' = Rejected("Invalid YouTube URL")
               /\ UNCHANGED <<am, inflight, sent, progressMessage>>
          ELSE ApplySvc(AmBegin(url, gk, yk, lk, language, FALSE, progressMessage))
  /\ UNCHANGED <<inputs, analysis, isLoading, error, pl>>

\* analyzeMusicAdvanced after `await analyzeMusic(...)` (637-660): a rejection
\* propagates, otherwise analyzeAudioFromYouTube is awaited
AdvancedBasicSettled ==
  /\ pc = "am_settled"
  /\ mode = "advanced"
  /\ IF settled.kind = "resolved"
     THEN /\ adv' = [adv EXCEPT !.basicAnalysis = settled.value,
                                !.prompts = <<sent[Len(sent)].prompt>>]
          /\ pc' = "adv_audio"
          /\ settled' = Pending
     ELSE /\ pc' = "adv_settled"
          /\ UNCHANGED <<adv, settled>>
  /\ am' = NoCall
  /\ sent' = << >>
  /\ UNCHANGED <<inputs, outputs, mode, pl, inflight>>

\* analyzeAudioFromYouTube returned; extractLyricsAdvanced up to tryAudioFingerprinting
AudioAnalysisDone ==
  /\ pc = "adv_audio"
  /\ \E q \in AudioQualities : adv' = [adv EXCEPT !.audioAnalysis = q,
                                                   !.attempted = <<"audio_fingerprint">>]
  /\ pc' = "adv_fingerprint"
  /\ UNCHANGED <<inputs, outputs, mode, am, pl, settled, inflight, sent>>

\* extractLyricsAdvanced has returned result: the prompt and generateContent (670-698)
LyricsExtracted(result) ==
  LET a == [adv EXCEPT !.lyricsExtraction = result]
      config == [language |-> adv.language, analysisDepth |-> adv.analysisDepth]
      basicData == [title |-> adv.basicAnalysis.video, youtube |-> adv.videoId]
      prompt == generateAdvancedPrompt(basicData, adv.audioAnalysis, result, config)
      req == GeminiReq(adv.geminiApiKey, prompt)
  IN /\ adv' = [a EXCEPT !.prompts = Append(@, prompt)]
     /\ pc' = "adv_gemini"
     /\ inflight' = inflight \cup {req}

\* tryAudioFingerprinting returned (1519-1525)
AudioFingerprintingDone ==
  /\ pc = "adv_fingerprint"
  /\ IF Accepted(tryAudioFingerprinting, FingerprintThreshold)
     THEN LyricsExtracted(tryAudioFingerprinting)
     ELSE /\ adv' = [adv EXCEPT !.attempted = Append(@, "speech_recognition")]
          /\ pc' = "adv_speech"
          /\ UNCHANGED inflight
  /\ UNCHANGED <<inputs, outputs, mode, am, pl, settled, sent>>

\* trySpeechRecognition returned (1525-1531)
SpeechRecognitionDone ==
  /\ pc = "adv_speech"
  /\ IF Accepted(trySpeechRecognition, SpeechThreshold)
     THEN LyricsExtracted(trySpeechRecognition)
     ELSE /\ adv' = [adv EXCEPT !.attempted = Append(@, "ai_transcription")]
          /\ pc' = "adv_ai"
          /\ UNCHANGED inflight
  /\ UNCHANGED <<inputs, outputs, mode, am, pl, settled, sent>>

\* tryAITranscription returned (1531-1537): accepted, or the fallback
AITranscriptionDone ==
  /\ pc = "adv_ai"
  /\ IF Accepted(tryAITranscription, TranscriptionThreshold)
     THEN LyricsExtracted(tryAITranscription)
     ELSE /\ adv' = [adv EXCEPT !.attempted = Append(@, "fallback"),
                                !.lyricsExtraction = createFallbackLyricsAnalysis,
                                !.prompts = Append(@, generateAdvancedPrompt(
                                   [title |-> adv.basicAnalysis.video, youtube |-> adv.videoId],
                                   adv.audioAnalysis, createFallbackLyricsAnalysis,
                                   [language |-> adv.language, analysisDepth |-> adv.analysisDepth]))]
          /\ pc' = "adv_gemini"
          /\ inflight' = inflight \cup {GeminiReq(adv.geminiApiKey, adv'.prompts[Len(adv'.prompts)])}
  /\ UNCHANGED <<inputs, outputs, mode, am, pl, settled, sent>>

\* generateContent answered (700-731): JSON.parse(response.text || '{}') and the
\* result, or the error as it is
AdvancedGeminiResponse ==
  /\ pc = "adv_gemini"
  /\ \E r \in Awaited("generateContent"), resp \in GeminiResponses(adv.videoId) :
       /\ settled' = IF resp.kind = "json" THEN Resolved(resp.analysis)
                     ELSE Rejected(resp.message)
       /\ inflight' = inflight \ {r}
  /\ pc' = "adv_settled"
  /\ UNCHANGED <<inputs, outputs, mode, am, pl, adv, sent>>

\* the caller of analyzeMusicAdvanced takes the settlement
AdvancedSettled ==
  /\ pc = "adv_settled"
  /\ mode = "advanced"
  /\ pc' = "idle"
  /\ mode' = "idle"
  /\ adv' = NoAdvanced
  /\ settled' = Pending
  /\ UNCHANGED <<inputs, outputs, am, pl, inflight, sent>>

(***************************************************************************)
(* The App: initial state and next-state relation.                         *)
(***************************************************************************)
Init ==
  /\ youtubeUrl = ""
  /\ geminiApiKey = ""
  /\ youtubeApiKey = ""
  /\ lastfmApiKey = ""
  /\ analysis = NoAnalysis
  /\ isLoading = FALSE
  /\ error = NULL
  /\ isPlaylist = FALSE
  /\ progressMessage = ""
  /\ urlError = ""
  /\ pc = "idle"
  /\ mode = "idle"
  /\ am = NoCall
  /\ pl = NoPlaylist
  /\ adv = NoAdvanced
  /\ settled = Pending
  /\ inflight = {}
  /\ sent = << >>

\* the steps of a running analyzeMusic call: a response arrives
AnalyzeMusicStep ==
  \/ GetVideoDataResponse
  \/ GetTrackInfoResponse
  \/ GetArtistInfoResponse
  \/ PopularityTrackInfoResponse
  \/ PopularityArtistInfoResponse
  \/ LyricsResponse
  \/ GeminiResponse

\* the steps of a running service call of the App: a response arrives or a timer fires
ServiceStep ==
  \/ AnalyzeMusicStep
  \/ PlaylistsResponse
  \/ PlaylistItemsResponse
  \/ VideoBatchResponse
  \/ PlaylistTrackSettled
  \/ PauseElapsed

Next ==
  \/ SetGeminiApiKey
  \/ SetYoutubeApiKey
  \/ SetLastfmApiKey
  \/ handleUrlChange
  \/ handleSubmit
  \/ AnalyzeMusicSettled
  \/ AnalyzePlaylistSettled
  \/ ServiceStep

Spec == Init /\ [][Next]_vars

\* every response arrives and every timer fires: the service promise settles
FairSpec == Spec /\ WF_vars(ServiceStep) /\ WF_vars(AnalyzeMusicSettled) /\ WF_vars(AnalyzePlaylistSettled)

(***************************************************************************)
(* The advanced analysis, called as a library function.                    *)
(***************************************************************************)
NextAdvanced ==
  \/ AnalyzeMusicAdvancedCall
  \/ AnalyzeMusicStep
  \/ AdvancedBasicSettled
  \/ AudioAnalysisDone
  \/ AudioFingerprintingDone
  \/ SpeechRecognitionDone
  \/ AITranscriptionDone
  \/ AdvancedGeminiResponse
  \/ AdvancedSettled

SpecAdvanced == Init /\ [][NextAdvanced]_vars

(***************************************************************************)
(* handleAnalyze called as a function, without the form of URLInput in     *)
(* front of it (URLInput.handleSubmit rejects a blank URL before it calls  *)
(* onAnalyze).                                                             *)
(***************************************************************************)
InvokeHandleAnalyze ==
  /\ Idle
  /\ handleAnalyze
  /\ UNCHANGED inputs

NextHandler ==
  \/ SetGeminiApiKey
  \/ SetYoutubeApiKey
  \/ SetLastfmApiKey
  \/ handleUrlChange
  \/ InvokeHandleAnalyze
  \/ AnalyzeMusicSettled
  \/ AnalyzePlaylistSettled
  \/ ServiceStep

SpecHandler == Init /\ [][NextHandler]_vars

(***************************************************************************)
(* The aggregation of analyzePlaylist as a function of the analyses its    *)
(* tracks returned (1886-1897, 1908-1954): the loop body collects one      *)
(* analysis after the other, and the return statement builds the result.   *)
(* The playlists are a run of "Rock" tracks, then a run of "Pop" tracks,   *)
(* then at most one track of each other sample, MaxAggregateTracks at most.*)
(***************************************************************************)
SampleGenres == <<"Rock", "Pop", "Jazz", "Funk", "Soul", "Folk", "">>

\* the bpm of the samples: zero for "Jazz", negative for "Soul", and none at all
\* for the sample without a genre
SampleAnalysis(k) ==
  IF k = Len(SampleGenres)
  THEN [video |-> "vL", error |-> "", primaryGenre |-> SampleGenres[k]]
  ELSE [video |-> "vL", error |-> "", primaryGenre |-> SampleGenres[k],
        bpm |-> <<120, 125, 0, 90, 0 - 1, 101>>[k]]

InitAggregate ==
  /\ youtubeUrl = UrlPlaylist
  /\ geminiApiKey = "G"
  /\ youtubeApiKey = "Y"
  /\ lastfmApiKey = ""
  /\ analysis = NoAnalysis
  /\ isLoading = TRUE
  /\ error = NULL
  /\ isPlaylist = TRUE
  /\ progressMessage = ""
  /\ urlError = ""
  /\ pc = "pl_collect"
  /\ mode = "playlist"
  /\ am = NoCall
  /\ pl = [NewPlaylist(UrlPlaylist, "G", "Y", "", MaxAggregateTracks, TRUE) EXCEPT !.i = 1]
  /\ adv = NoAdvanced
  /\ settled = Pending
  /\ inflight = {}
  /\ sent = << >>

\* one more track analysed successfully: the body of the try block
TrackCollected ==
  /\ pc = "pl_collect"
  /\ Len(pl.trackAnalyses) < MaxAggregateTracks
  /\ \E k \in 1..Len(SampleGenres) :
       /\ \A i \in 1..Len(pl.trackAnalyses) :
            LET g == pl.trackAnalyses[i].primaryGenre
            IN \A j \in 1..Len(SampleGenres) :
                 SampleGenres[j] = g => (j <= k /\ (k > 2 => j < k))
       /\ pl' = [Collect(pl, SampleAnalysis(k)) EXCEPT !.i = @ + 1, !.finished = @ + 1]
  /\ UNCHANGED <<inputs, outputs, pc, mode, am, adv, settled, inflight, sent>>

\* the loop is over: analyzePlaylist returns its result
PlaylistReturned ==
  /\ pc = "pl_collect"
  /\ pc' = "pl_settled"
  /\ settled' = Resolved(PlaylistResult(pl))
  /\ UNCHANGED <<inputs, outputs, mode, am, pl, adv, inflight, sent>>

NextAggregate ==
  \/ TrackCollected
  \/ PlaylistReturned

SpecAggregate == InitAggregate /\ [][NextAggregate]_vars


(***************************************************************************)
(* Properties.                                                             *)
(***************************************************************************)
HasMethod(log, method) == \E k \in 1..Len(log) : log[k].method = method

\* C1: within an analyzeMusic call the YouTube metadata request comes first and the
\* Gemini request is issued only once consolidateMusicData has returned data; when it
\* returns null the call rejects with the no-data message and never calls Gemini.
PipelineOrder ==
  am.active =>
    /\ HasMethod(sent, "generateContent") =>
         /\ am.consolidated.state = "data"
         /\ sent[1].method = "videos"
         /\ sent[Len(sent)].method = "generateContent"
         /\ \A k \in 1..(Len(sent) - 1) : sent[k].method # "generateContent"
    /\ am.consolidated.state = "null" =>
         /\ pc = "am_settled"
         /\ settled = Rejected(MsgNoData)
         /\ ~HasMethod(sent, "generateContent")

GeminiAfterData ==
  /\ mode = "single"
  /\ pc = "am_gemini"
  /\ am.consolidated.state = "data"
  /\ \E r \in inflight : r.method = "generateContent"

\* C2: at most one HTTP request is in flight at any time, and in a playlist at most
\* one per-track analysis attempt is started and not yet finished.
SequentialRequests ==
  /\ Cardinality(inflight) <= 1
  /\ pl.active =>
       /\ pl.calls - pl.finished \in {0, 1}
       /\ am.active <=> pl.calls = pl.finished + 1

SecondTrackInFlight ==
  /\ mode = "playlist"
  /\ pl.calls = 2
  /\ pl.finished = 1
  /\ Cardinality(inflight) = 1

\* C3: whenever the App is loading, it eventually stops loading with the progress
\* message reset to the empty string, whatever the outcome of the service call.
LoadingEnds == isLoading ~> (~isLoading /\ progressMessage = "")

LoadingEndedAfterEmptyPlaylist ==
  /\ ~isLoading
  /\ progressMessage = ""
  /\ error = MsgNoTrack

\* C4: an analysis never ends with an error caused by a missing YouTube or Last.fm key.
OptionalKeysNotRequired == error \notin {MsgNoYoutubeKey, MsgNoLastfmKey}

\* C5: a started analysis runs the playlist branch exactly when the URL in youtubeUrl
\* is a playlist URL.
PlaylistBranchIffPlaylistUrl ==
  isLoading => (mode = "playlist" <=> getUrlType(youtubeUrl) = "playlist")

AdvancedPromptInRequestedLanguage ==
  pc = "adv_gemini" => \A r \in inflight : r.prompt.respondIn = adv.language

\* C9: extractLyricsAdvanced tries audio fingerprinting, speech recognition, AI
\* transcription and the fallback in this order, returns the first method whose
\* confidence is strictly above 0.8, 0.6, 0.4 respectively, attempts nothing after the
\* accepted method, and returns the fallback only when none of the three is accepted.
LyricsMethodsInOrder ==
  LET methods == <<"audio_fingerprint", "speech_recognition", "ai_transcription", "fallback">>
      conf == <<tryAudioFingerprinting.confidence, trySpeechRecognition.confidence,
                tryAITranscription.confidence>>
      thr == <<80, 60, 40>>
      above == {k \in 1..3 : conf[k] > thr[k]}
      first == IF above = {} THEN 4 ELSE CHOOSE k \in above : \A j \in above : k <= j
  IN adv.active =>
       /\ Len(adv.attempted) <= first
       /\ adv.attempted = SubSeq(methods, 1, Len(adv.attempted))
       /\ adv.lyricsExtraction # NoLyrics =>
            /\ adv.lyricsExtraction.method = methods[first]
            /\ Len(adv.attempted) = first

FallbackReturnedAfterThreeAttempts ==
  /\ pc = "adv_gemini"
  /\ adv.lyricsExtraction.method = "fallback"
  /\ Len(adv.attempted) = 4

\* C10: within one analyzeMusic call no Last.fm request is sent twice.
LastfmRequestSentOnce ==
  \A i, j \in 1..Len(sent) :
    (i # j /\ sent[i].dest = LastfmHost) => sent[i] # sent[j]

GeminiRequests(log) == Len(SelectSeq(log, LAMBDA r : r.method = "generateContent"))

\* C11: within one analyzeMusic call generateContent is requested at most once; while
\* it is awaited exactly one such request has been sent, and once the call has settled
\* after it (with the analysis or with an Error) nothing is in flight any more.
NoRetries ==
  /\ GeminiRequests(sent) <= 1
  /\ pc = "am_gemini" => (GeminiRequests(sent) = 1 /\ settled = Pending)
  /\ (pc = "am_settled" /\ GeminiRequests(sent) = 1) =>
       /\ inflight = {}
       /\ settled.kind \in {"resolved", "rejected"}

GeminiFailureSurfaced ==
  /\ pc = "am_settled"
  /\ GeminiRequests(sent) = 1
  /\ settled \in {Rejected(MsgGeminiFailed), Rejected(MsgNetwork), Rejected(MsgInvalidKey)}

\* C12: while the App is loading, error and analysis are both null.
LoadingHasNoResults == isLoading => (error = NULL /\ analysis = NoAnalysis)

LoadingWithRequestInFlight ==
  /\ isLoading
  /\ inflight # {}
  /\ error = NULL
  /\ analysis = NoAnalysis

\* C13: error and analysis are never both non-null.
ErrorExcludesAnalysis == ~(error # NULL /\ analysis # NoAnalysis)

\* C14: a call of handleAnalyze with an empty or whitespace-only Gemini key sets error
\* to the Gemini-key message, and one with a non-blank Gemini key and an empty URL sets
\* it to the URL message; in both cases isLoading, analysis, progressMessage and the
\* service (no request, no call) are left as they were.
ValidationRejects ==
  [][(Idle /\ UNCHANGED inputs) =>
       /\ geminiApiKey \in {"", " "} =>
            /\ error' = "Por favor, insira sua chave de API da Gemini."
            /\ UNCHANGED <<analysis, isLoading, progressMessage, service>>
       /\ (geminiApiKey \notin {"", " "} /\ youtubeUrl = "") =>
            /\ error' = "Por favor, insira um URL do YouTube."
            /\ UNCHANGED <<analysis, isLoading, progressMessage, service>>]_vars

BlankUrlRejected ==
  /\ error = MsgNoUrlUI
  /\ geminiApiKey = "G"
  /\ youtubeUrl = ""
  /\ ~isLoading
  /\ inflight = {}

\* C15: while isLoading is true a run is in progress, and no step changes the URL or a
\* key or starts another run: the mode stays the same until the run ends, a single
\* analysis never goes back to its first request, a playlist analysis never goes back
\* to its playlist request and its count of track analyses never drops.
OneRunAtATime ==
  [][isLoading =>
       /\ mode # "idle"
       /\ UNCHANGED <<youtubeUrl, geminiApiKey, youtubeApiKey, lastfmApiKey>>
       /\ mode' = mode \/ (mode' = "idle" /\ ~isLoading')
       /\ pc' # "pl_playlists"
       /\ mode = "single" => pc' # "am_getVideoData"
       /\ (mode = "playlist" /\ mode' = "playlist") =>
            (pl'.playlistUrl = pl.playlistUrl /\ pl'.calls >= pl.calls)]_vars

LoadingWhileLyricsFetched ==
  /\ isLoading
  /\ mode = "single"
  /\ pc = "am_lyrics"

\* C16: the analysis state never holds an Analysis whose error field is non-empty.
NoErrorAnalysisStored == analysis # NoAnalysis => ~Truthy(analysis.error)

\* the analyses tr, taken by their video, are a subsequence of the videos vids
RECURSIVE IsSubsequence(_, _, _, _)
IsSubsequence(tr, vids, k, j) ==
  IF k > Len(tr) THEN TRUE
  ELSE IF j > Len(vids) THEN FALSE
  ELSE IF tr[k].video = vids[j] THEN IsSubsequence(tr, vids, k + 1, j + 1)
  ELSE IsSubsequence(tr, vids, k, j + 1)

\* C17: once analyzePlaylist has its playlist data it never rejects: a track whose
\* analysis rejects is skipped and the next one is analysed, a track whose analysis
\* resolves is appended to trackAnalyses, nothing else changes trackAnalyses, so that
\* trackAnalyses is an in-order subsequence of the playlist; the result is returned
\* after every track has been attempted and its totalTracks is Len(trackAnalyses).
PlaylistSurvivesFailures ==
  /\ [](  (pl.active /\ pl.i >= 1) =>
            /\ IsSubsequence(pl.trackAnalyses, pl.videos, 1, 1)
            /\ pc = "pl_settled" =>
                 /\ settled.kind = "resolved"
                 /\ settled.value.trackAnalyses = pl.trackAnalyses
                 /\ settled.value.totalTracks = Len(pl.trackAnalyses)
                 /\ pl.finished = Len(pl.videos))
  /\ [][(mode = "playlist" /\ mode' = "playlist" /\ pl.i >= 1) =>
          IF pc = "am_settled" /\ settled.kind = "resolved"
          THEN pl'.trackAnalyses = Append(pl.trackAnalyses, settled.value)
          ELSE pl'.trackAnalyses = pl.trackAnalyses]_vars

SecondTrackOnlySucceeded ==
  /\ pc = "pl_settled"
  /\ pl.playlistId = "PLmix"
  /\ Len(pl.videos) = 2
  /\ pl.trackAnalyses = <<OkAnalysis("vB")>>
  /\ settled.kind = "resolved"

\* C18: every per-track analysis after the first is preceded by a pause: the number of
\* pauses taken is at least the number of analyses started minus one.
PauseBeforeEveryNextTrack ==
  (pl.active /\ pl.calls >= 1) => pl.pauses >= pl.calls - 1

\* C19: consolidateMusicData returns null only for a URL that is not a video URL, for a
\* URL without a video id, or when the video data could not be fetched; once the video
\* data is there it returns an object whatever the Last.fm and lyrics lookups gave,
\* with title, artist, duration and the youtube section present, the lastfm section
\* present iff the track lookup was not null and the lyrics section iff lyrics were found.
ConsolidationResult ==
  am.active =>
    /\ am.consolidated.state = "null" =>
         \/ getUrlType(am.url) # "video"
         \/ am.videoId = NULL
         \/ am.videoTitle = NULL
    /\ (am.videoTitle # NULL /\ pc \in {"am_gemini", "am_settled"}) =>
         am.consolidated.state = "data"
    /\ am.consolidated.state = "data" =>
         /\ getUrlType(am.url) = "video"
         /\ am.consolidated.title \notin {NULL, ""}
         /\ am.consolidated.artist \notin {NULL, ""}
         /\ am.consolidated.duration \in Nat
         /\ am.consolidated.youtube = am.videoId
         /\ am.videoId # NULL
         /\ am.videoTitle # NULL
         /\ am.consolidated.lastfm <=> (am.lastfmTrackInfo # NULL)
         /\ am.consolidated.lyrics <=> am.lyricsFound

ConsolidatedWithoutLastfmAndLyrics ==
  /\ pc = "am_gemini"
  /\ am.consolidated.state = "data"
  /\ am.lastfmTrackInfo = NULL
  /\ am.lastfmArtistInfo = NULL
  /\ ~am.lyricsFound
  /\ ~am.consolidated.lastfm
  /\ ~am.consolidated.lyrics

\* how many of the analyses have the genre as their primary genre
GenreCount(trackAnalyses, genre) ==
  Len(SelectSeq(trackAnalyses, LAMBDA a : a.primaryGenre = genre))

\* 100 * count / total rounded to the nearest integer, a half rounded up
ExactPercentage(count, total) == (200 * count + total) \div (2 * total)

RECURSIVE PercentageSum(_)
PercentageSum(entries) ==
  IF entries = << >> THEN 0 ELSE entries[1].percentage + PercentageSum(Tail(entries))

\* C21: in the result of analyzePlaylist, the percentages of dominantGenres sum to
\* at most 100, whatever the primary genres of the tracks are.
PercentagesWithin100 ==
  (pc = "pl_settled" /\ settled.kind = "resolved") =>
    PercentageSum(settled.value.dominantGenres) <= 100

\* C21 as amended: every percentage is rounded on its own, so the sum may pass 100,
\* by at most one for every two entries of dominantGenres (102 at most)
PercentagesNear100 ==
  (pc = "pl_settled" /\ settled.kind = "resolved") =>
    PercentageSum(settled.value.dominantGenres)
      <= 100 + (Len(settled.value.dominantGenres) \div 2)

\* a result in which four rounded halves bring the sum to 102
PercentagesSumTo102 ==
  /\ pc = "pl_settled"
  /\ settled.kind = "resolved"
  /\ Len(settled.value.trackAnalyses) = 8
  /\ Len(settled.value.dominantGenres) = 4
  /\ PercentageSum(settled.value.dominantGenres) = 102

\* the analyses whose bpm is present and greater than 0
WithBpm(trackAnalyses) ==
  SelectSeq(trackAnalyses, LAMBDA a : "bpm" \in DOMAIN a /\ a.bpm > 0)

\* the sum of the bpm of the analyses, taken value by value
RECURSIVE BpmSum(_, _)
BpmSum(values, withBpm) ==
  IF values = {} THEN 0
  ELSE LET v == CHOOSE x \in values : TRUE
       IN v * Len(SelectSeq(withBpm, LAMBDA a : a.bpm = v)) + BpmSum(values \ {v}, withBpm)

\* C22: averageBPM is the arithmetic mean, rounded to the nearest integer, of the bpm
\* of exactly the successfully analysed tracks whose bpm is greater than 0 (a missing,
\* zero or negative bpm counts neither in the sum nor in the number of tracks), and
\* it is 0 when there is no such track.
AverageBpmOfValidTracks ==
  (pc = "pl_settled" /\ settled.kind = "resolved") =>
    LET withBpm == WithBpm(settled.value.trackAnalyses)
        n == Len(withBpm)
        sum == BpmSum({withBpm[i].bpm : i \in 1..n}, withBpm)
        avg == settled.value.averageBPM
    IN IF n = 0 THEN avg = 0
       ELSE 2 * n * avg <= 2 * sum + n /\ 2 * sum + n < 2 * n * (avg + 1)

\* a result whose mean leaves out a zero, a negative and a missing bpm, and is
\* rounded up from 122.5
AverageSkipsInvalidBpm ==
  /\ pc = "pl_settled"
  /\ settled.kind = "resolved"
  /\ Len(settled.value.trackAnalyses) = 5
  /\ Len(WithBpm(settled.value.trackAnalyses)) = 2
  /\ \E i \in 1..5 : "bpm" \notin DOMAIN settled.value.trackAnalyses[i]
  /\ \E i \in 1..5 : settled.value.trackAnalyses[i].primaryGenre = "Jazz"
  /\ \E i \in 1..5 : settled.value.trackAnalyses[i].primaryGenre = "Soul"
  /\ settled.value.averageBPM = 123

====
